---- MODULE Spec2Model ----
(***************************************************************************)
(* DataLoader2 and DataLoader2Iterator of torchdata/dataloader2/           *)
(* dataloader2.py as a state machine: one orchestrator, the proxies it has *)
(* issued, and a recording of every hook it invokes on its reading service.*)
(*                                                                         *)
(* Python's Optional values are sequences of length 0 (None) or 1.         *)
(* Integers are TLC's (32 bit), so the uint64 bound is scaled down; only   *)
(* the comparison seed >= bound is modelled.                               *)
(***************************************************************************)
EXTENDS Integers, Sequences, FiniteSets, TLC

VARIABLES
    datapipe,                 \* self.datapipe                   Optional graph
    datapipe_adapter_fns,     \* self.datapipe_adapter_fns       Seq of adapter names (None = <<>>)
    reading_service,          \* self.reading_service            "none" | "plain" | "ckpt"
    reading_service_state,    \* self.reading_service_state      Optional backend state
    _adapted,                 \* self._adapted
    _datapipe_iter,           \* self._datapipe_iter             Optional [g, pos]
    _reset_iter,              \* self._reset_iter
    _terminated,              \* self._terminated
    valid_iterator_id,        \* self.valid_iterator_id          NoId (None) or 0, 1, ...
    _datapipe_before_reading_service_adapt,
    _seed_generator,          \* self._seed_generator            Optional seed: <<>> = seeded from entropy
    _seed,                    \* self._seed                      Optional int
    _reset_seed,              \* self._reset_seed
    issued,                   \* ids of the DataLoader2Iterator objects returned so far
    invoked,                  \* per counted hook of the reading service: times invoked so far
    iter_open,                \* initialize_iteration returned, finalize_iteration not invoked since
    called,                   \* the hooks the last call invoked, in order, with arguments
    op,                       \* the last call made by the caller
    ret,                      \* what that call returned or raised
    source_datapipe,          \* Boto3FileOpener.source_datapipe   Seq of URIs
    opener_iter,              \* the generator Boto3FileOpener.__iter__ returned last: Optional
                              \* [pos, done, after], after = pairs the generator before it had yielded
    yielded,                  \* the pairs that generator has yielded
    lister_datapipe,          \* Boto3FileLister.datapipe          Seq of roots
    masks,                    \* Boto3FileLister.masks             "" (<<>>) or the suffix of "*suffix"
    lister_iter,              \* the generator Boto3FileLister.__iter__ returned last: Optional
                              \* [root, key, done]: roots finished, keys of the current root passed
    listed                    \* the URLs that generator has yielded

vars == <<datapipe, datapipe_adapter_fns, reading_service, reading_service_state,
          _adapted, _datapipe_iter, _reset_iter, _terminated, valid_iterator_id,
          _datapipe_before_reading_service_adapt, _seed_generator, _seed,
          _reset_seed, issued, invoked, iter_open, called, op, ret,
          source_datapipe, opener_iter, yielded,
          lister_datapipe, masks, lister_iter, listed>>

\* The file opener and its generator.
opener == <<source_datapipe, opener_iter, yielded>>

\* The file lister and its generator.
lister == <<lister_datapipe, masks, lister_iter, listed>>

\* The fields of the orchestrator itself (everything but the caller's view).
self == <<datapipe, datapipe_adapter_fns, reading_service, reading_service_state,
          _adapted, _datapipe_iter, _reset_iter, _terminated, valid_iterator_id,
          _datapipe_before_reading_service_adapt, _seed_generator, _seed,
          _reset_seed>>

-----------------------------------------------------------------------------
(* Bounds of the model *)
MaxLen == 2        \* longest graph (number of items its iterator produces)
MaxIter == 3       \* proxies issued per orchestrator
MaxCount == 2      \* invocation counts stop here: MaxCount means "or more"
MaxAdapt == 2      \* adapter applications recorded on one graph
MaxSrc == 2        \* longest source of the file opener
MaxRoots == 2      \* longest sequence of roots of the file lister

(* Program constants *)
_UINT64_UPPER_BOUND == 16   \* 2^64 in the source, scaled to 2^4
NoId == -1                  \* valid_iterator_id = None

None == <<>>
Some(x) == <<x>>
IsNone(o) == Len(o) = 0
Get(o) == o[1]

-----------------------------------------------------------------------------
(* The graph (DataPipe): what its iterator produces item by item, the      *)
(* adapters applied to it and the reading-service rewrites applied to it.  *)
Kinds == {"ELEM", "PAUSE", "ERR"}

RECURSIVE SeqsUpTo(_, _)
SeqsUpTo(S, n) ==
    IF n = 0 THEN {<<>>}
    ELSE LET shorter == SeqsUpTo(S, n - 1)
         IN  shorter \cup {Append(s, x) : s \in {t \in shorter : Len(t) = n - 1}, x \in S}

Graph(items) == [items |-> items, ad |-> <<>>, be |-> <<>>]

\* The graphs given to the constructor: up to MaxLen items, elements except
\* possibly the last, so that the iterator ends by exhaustion, by a pause or
\* by an error.
Signals(items) == {k \in 1..Len(items) : items[k] # "ELEM"}
Graphs == {Graph(i) : i \in {s \in SeqsUpTo(Kinds, MaxLen) : Signals(s) \subseteq {Len(s)}}}

Adapter(fn, g) == [g EXCEPT !.ad = Append(@, fn)]

RECURSIVE ApplyAdapters(_, _)
ApplyAdapters(fns, g) ==
    IF fns = <<>> THEN g ELSE ApplyAdapters(Tail(fns), Adapter(Head(fns), g))

\* graph/_serialization.py: a serialized graph is opaque bytes, not a graph.
serialize_datapipe(odp) == [bytes |-> odp]
deserialize_datapipe(b) == b.bytes
clone(x) == x

\* The dictionary state_dict() returns.
Bundle(odp, st) == [serialized_datapipe |-> serialize_datapipe(odp),
                    reading_service_state |-> st]

-----------------------------------------------------------------------------
(* The reading service: each hook is recorded when invoked; the graph a    *)
(* hook returns is the graph it was given, marked with the hook.           *)
HookNames == {"initialize", "restore", "initialize_iteration",
              "finalize_iteration", "finalize", "checkpoint"}
\* The hooks whose invocations are counted over the orchestrator's lifetime.
Counted == {"initialize", "restore", "finalize_iteration", "finalize"}

BackendStates == {1, 2}
\* What reading_service.checkpoint() returns.
RS_checkpoint == 2

Hook(name, arg) == [hook |-> name, arg |-> arg, raised |-> FALSE]
HookRaised(name, arg) == [hook |-> name, arg |-> arg, raised |-> TRUE]
RS_initialize(g) == [g EXCEPT !.be = Append(@, "initialize")]
RS_restore(g, st) == [g EXCEPT !.be = Append(@, "restore")]
\* The rewrite initialize_iteration may return; rewriting a rewritten graph
\* again gives the same marking.
iter_reset_fn(g) ==
    IF g.be # <<>> /\ g.be[Len(g.be)] = "iter_reset" THEN g
    ELSE [g EXCEPT !.be = Append(@, "iter_reset")]

CountIn(log, h) == Cardinality({i \in 1..Len(log) : log[i].hook = h})
Min(a, b) == IF a < b THEN a ELSE b

\* The recording after one call that invoked the hooks of `calls` in order.
RECURSIVE OpenAfter(_, _)
OpenAfter(open, calls) ==
    IF calls = <<>> THEN open
    ELSE OpenAfter(CASE Head(calls).raised -> open
                     [] Head(calls).hook = "initialize_iteration" -> TRUE
                     [] Head(calls).hook = "finalize_iteration" -> FALSE
                     [] OTHER -> open,
                   Tail(calls))

Record(calls) ==
    /\ called' = calls
    /\ invoked' = [h \in Counted |-> Min(invoked[h] + CountIn(calls, h), MaxCount)]
    /\ iter_open' = OpenAfter(iter_open, calls)

-----------------------------------------------------------------------------
(* Results seen by the caller *)
Returned(kind, val) == [kind |-> kind, val |-> val, err |-> ""]
Raised(err) == [kind |-> "error", val |-> -1, err |-> err]
StopIteration == [kind |-> "stop", val |-> -1, err |-> "StopIteration"]
Call(name, id) == [name |-> name, id |-> id]
CallWith(name, arg) == [name |-> name, id |-> -1, arg |-> arg]

STALE == "RuntimeError: iterator invalidated"
SHUTDOWN == "RuntimeError: already shut down"
NO_DATAPIPE == "RuntimeError: no datapipe"
ALREADY_CREATED == "RuntimeError: iterator already created"
NOT_CHECKPOINTABLE == "TypeError: non-checkpointable reading service"
BAD_SEED == "ValueError: expected uint64"
NONE_ITER == "TypeError: NoneType is not an iterator"

-----------------------------------------------------------------------------
(* DataLoader2.__init__ and DataLoader2.from_state *)
AdapterInputs == {<<>>, <<"a1">>}
ReadingServices == {"none", "plain", "ckpt"}

Constructed(odp, fns, rs, st) ==
    LET adapted == IF IsNone(odp) THEN odp ELSE Some(ApplyAdapters(fns, clone(Get(odp))))
    IN  /\ datapipe = adapted
        /\ datapipe_adapter_fns = fns
        /\ reading_service = rs
        /\ reading_service_state = st
        /\ _adapted = FALSE
        /\ _datapipe_iter = None
        /\ _reset_iter = TRUE
        /\ _terminated = FALSE
        /\ valid_iterator_id = NoId
        /\ _datapipe_before_reading_service_adapt = clone(adapted)
        /\ _seed_generator = None
        /\ _seed = None
        /\ _reset_seed = TRUE
        /\ issued = {}
        /\ invoked = [h \in Counted |-> 0]
        /\ iter_open = FALSE
        /\ called = <<>>
        /\ op = Call("__init__", NoId)
        /\ ret = Returned("none", -1)

ForeignBundles ==
    {Bundle(Some(Adapter("a1", Graph(<<"ELEM">>))), st) : st \in {None, Some(1)}}

__init__ ==
    \E odp \in {None} \cup {Some(g) : g \in Graphs}, fns \in AdapterInputs,
       rs \in ReadingServices :
        Constructed(odp, fns, rs, None)

from_state ==
    \E b \in ForeignBundles, rs \in ReadingServices \ {"none"} :
        Constructed(deserialize_datapipe(b.serialized_datapipe), <<>>, rs,
                    b.reading_service_state)

\* No file opener is in use.
OpenerUnused ==
    /\ source_datapipe = <<>>
    /\ opener_iter = None
    /\ yielded = <<>>

\* No file lister is in use.
ListerUnused ==
    /\ lister_datapipe = <<>>
    /\ masks = <<>>
    /\ lister_iter = None
    /\ listed = <<>>

Init == (__init__ \/ from_state) /\ OpenerUnused /\ ListerUnused

-----------------------------------------------------------------------------
(* DataLoader2.shutdown, on the fields it reads and writes:                *)
(* s = [_reset_iter, _datapipe_iter, _terminated, hooks], hooks being the  *)
(* hooks invoked so far in the current call.                               *)
Fields == [_reset_iter |-> _reset_iter, _datapipe_iter |-> _datapipe_iter,
           _terminated |-> _terminated, hooks |-> <<>>]

Invoke(log, name, arg) ==
    IF reading_service # "none" THEN Append(log, Hook(name, arg)) ELSE log

ShutdownOfUnguarded(s) ==
    LET s1 == IF ~s._reset_iter
              THEN [s EXCEPT !._reset_iter = TRUE, !._datapipe_iter = None]
              ELSE s
    IN  [s1 EXCEPT !.hooks = Invoke(Invoke(@, "finalize_iteration", <<>>),
                                    "finalize", <<>>),
                   !._terminated = TRUE]

ShutdownOfKeepsOpen(s) ==
    LET s1 == IF ~s._reset_iter
              THEN [s EXCEPT !._reset_iter = TRUE, !._datapipe_iter = None]
              ELSE s
    IN  IF ~s1._terminated
        THEN [s1 EXCEPT !.hooks = Invoke(Invoke(@, "finalize_iteration", <<>>),
                                         "finalize", <<>>)]
        ELSE s1

ShutdownOf(s) ==
    LET s1 == IF ~s._reset_iter
              THEN [s EXCEPT !._reset_iter = TRUE, !._datapipe_iter = None]
              ELSE s
    IN  IF ~s1._terminated
        THEN [s1 EXCEPT !.hooks = Invoke(Invoke(@, "finalize_iteration", <<>>),
                                         "finalize", <<>>),
                        !._terminated = TRUE]
        ELSE s1

SetFields(s) ==
    /\ _reset_iter' = s._reset_iter
    /\ _datapipe_iter' = s._datapipe_iter
    /\ _terminated' = s._terminated
    /\ Record(s.hooks)

\* shutdown(), __exit__ and __del__
shutdown ==
    /\ SetFields(ShutdownOf(Fields))
    /\ op' = Call("shutdown", NoId)
    /\ ret' = Returned("none", -1)
    /\ UNCHANGED <<datapipe, datapipe_adapter_fns, reading_service,
                   reading_service_state, _adapted, valid_iterator_id,
                   _datapipe_before_reading_service_adapt, _seed_generator,
                   _seed, _reset_seed, issued, opener, lister>>

-----------------------------------------------------------------------------
(* DataLoader2Iterator.__next__ *)
IsValidAny(id) == id <= valid_iterator_id
IsValid(id) == id = valid_iterator_id

\* next(self.dataloader._datapipe_iter): the outcome and the iterator after it.
Advance(it) ==
    IF IsNone(it) THEN [out |-> Raised(NONE_ITER), it |-> it]
    ELSE LET g == Get(it).g
             pos == Get(it).pos
         IN  IF pos >= Len(g.items)
             THEN [out |-> StopIteration, it |-> it]
             ELSE LET moved == Some([g |-> g, pos |-> pos + 1])
                  IN  CASE g.items[pos + 1] = "ELEM" ->
                             [out |-> Returned("elem", pos + 1), it |-> moved]
                        [] g.items[pos + 1] = "PAUSE" ->
                             [out |-> Raised("PauseIteration"), it |-> moved]
                        [] OTHER ->
                             [out |-> Raised("GraphError"), it |-> moved]

\* `except StopIteration:`
OnStopForgets(s) == s
OnStop(s) == [s EXCEPT !.hooks = Invoke(@, "finalize_iteration", <<>>)]

\* `except PauseIteration: raise StopIteration`
OnPauseShutsDown(s) == ShutdownOf(s)
OnPause(s) == s

\* `except Exception:`
OnErrorFinalizesIteration(s) == [s EXCEPT !.hooks = Invoke(@, "finalize_iteration", <<>>)]
OnError(s) == ShutdownOf(s)

\* The valid branch: the fields after the call, and what the caller sees.
NextValid(s) ==
    LET s0 == [s EXCEPT !._reset_iter = TRUE]
        a == Advance(s0._datapipe_iter)
        s1 == [s0 EXCEPT !._datapipe_iter = a.it]
    IN  CASE a.out.kind = "elem" -> [s |-> s1, out |-> a.out]
          [] a.out.err = "PauseIteration" -> [s |-> OnPause(s1), out |-> StopIteration]
          [] a.out.kind = "stop" -> [s |-> OnStop(s1), out |-> a.out]
          [] OTHER -> [s |-> OnError(s1), out |-> a.out]

\* The stale branch.
NextStaleShutsDown(s) == [s |-> ShutdownOf(s), out |-> Raised(STALE)]
NextStale(s) ==
    [s |-> [s EXCEPT !.hooks = Invoke(@, "finalize_iteration", <<>>)],
     out |-> Raised(STALE)]

__next__ ==
    \E id \in issued :
        LET r == IF IsValid(id) THEN NextValid(Fields) ELSE NextStale(Fields)
        IN  /\ SetFields(r.s)
            /\ op' = Call("__next__", id)
            /\ ret' = r.out
            /\ UNCHANGED <<datapipe, datapipe_adapter_fns, reading_service,
                           reading_service_state, _adapted, valid_iterator_id,
                           _datapipe_before_reading_service_adapt,
                           _seed_generator, _seed, _reset_seed, issued, opener, lister>>

-----------------------------------------------------------------------------
(* DataLoader2.__iter__.  t carries the fields the reset branch writes and *)
(* err, the exception raised so far ("" for none).  fail names the step    *)
(* that raises in this call: "adapt" (initialize or restore),              *)
(* "init_iter" (initialize_iteration), "draw" (iter(self.datapipe)).       *)
Failures == {"none", "adapt", "init_iter", "draw"}

IterFields == [datapipe |-> datapipe, _adapted |-> _adapted,
               _seed_generator |-> _seed_generator, _reset_seed |-> _reset_seed,
               _datapipe_iter |-> _datapipe_iter, _reset_iter |-> _reset_iter,
               hooks |-> <<>>, err |-> ""]

\* `if self._seed:`
Truthy(oseed) == ~IsNone(oseed) /\ Get(oseed) # 0

Reseed(t) ==
    IF Truthy(_seed)
    THEN IF t._reset_seed
         THEN [t EXCEPT !._seed_generator = Some(Get(_seed)), !._reset_seed = FALSE]
         ELSE t
    ELSE [t EXCEPT !._seed_generator = None]

\* `if not self._adapted and self.reading_service is not None:`
NeedsAdaptAlways(t) == reading_service # "none"
NeedsAdapt(t) == ~t._adapted /\ reading_service # "none"

Adapt(t, fail) ==
    IF ~NeedsAdapt(t) THEN t
    ELSE IF IsNone(reading_service_state)
    THEN IF fail = "adapt"
         THEN [t EXCEPT !.hooks = Append(@, HookRaised("initialize", <<>>)),
                        !.err = "HookError"]
         ELSE [t EXCEPT !.hooks = Append(@, Hook("initialize", <<>>)),
                        !.datapipe = Some(RS_initialize(Get(@))),
                        !._adapted = TRUE]
    ELSE IF reading_service # "ckpt" THEN [t EXCEPT !.err = NOT_CHECKPOINTABLE]
    ELSE IF fail = "adapt"
         THEN [t EXCEPT !.hooks = Append(@, HookRaised("restore", reading_service_state)),
                        !.err = "HookError"]
         ELSE [t EXCEPT !.hooks = Append(@, Hook("restore", reading_service_state)),
                        !.datapipe = Some(RS_restore(Get(@), reading_service_state)),
                        !._adapted = TRUE]

InitializeIteration(t, fail, rewrite) ==
    IF reading_service = "none" THEN t
    ELSE IF fail = "init_iter"
    THEN [t EXCEPT !.hooks = Append(@, HookRaised("initialize_iteration",
                                                  t._seed_generator)),
                   !.err = "HookError"]
    ELSE LET t1 == [t EXCEPT !.hooks =
                        Append(@, Hook("initialize_iteration", t._seed_generator))]
         IN  IF rewrite THEN [t1 EXCEPT !.datapipe = Some(iter_reset_fn(Get(@)))]
             ELSE t1

\* `self._datapipe_iter = iter(self.datapipe); self._reset_iter = False`
DrawClearsFirst(t, fail) ==
    IF fail = "draw" THEN [t EXCEPT !._reset_iter = FALSE, !.err = "GraphError"]
    ELSE [t EXCEPT !._datapipe_iter = Some([g |-> Get(t.datapipe), pos |-> 0]),
                   !._reset_iter = FALSE]
Draw(t, fail) ==
    IF fail = "draw" THEN [t EXCEPT !.err = "GraphError"]
    ELSE [t EXCEPT !._datapipe_iter = Some([g |-> Get(t.datapipe), pos |-> 0]),
                   !._reset_iter = FALSE]

\* The body of `if self._reset_iter:`
ResetIter(t, fail, rewrite) ==
    LET a == Adapt(Reseed(t), fail)
        b == IF a.err # "" THEN a ELSE InitializeIteration(a, fail, rewrite)
    IN  IF b.err # "" THEN b ELSE Draw(b, fail)

NewId == IF valid_iterator_id = NoId THEN 0 ELSE valid_iterator_id + 1

IterOutcome(fail, rewrite) ==
    IF IsNone(datapipe) THEN [IterFields EXCEPT !.err = NO_DATAPIPE]
    ELSE IF _terminated THEN [IterFields EXCEPT !.err = SHUTDOWN]
    ELSE IF _reset_iter THEN ResetIter(IterFields, fail, rewrite)
    ELSE IterFields

\* One call of __iter__ in which only the steps named in `fails` may raise.
IterCall(fails) ==
    /\ NewId < MaxIter
    /\ \E fail \in fails, rewrite \in BOOLEAN :
        LET t == IterOutcome(fail, rewrite)
        IN  /\ datapipe' = t.datapipe
            /\ _adapted' = t._adapted
            /\ _seed_generator' = t._seed_generator
            /\ _reset_seed' = t._reset_seed
            /\ _datapipe_iter' = t._datapipe_iter
            /\ _reset_iter' = t._reset_iter
            /\ Record(t.hooks)
            /\ IF t.err = ""
               THEN /\ valid_iterator_id' = NewId
                    /\ issued' = issued \cup {NewId}
                    /\ ret' = Returned("proxy", NewId)
               ELSE /\ UNCHANGED <<valid_iterator_id, issued>>
                    /\ ret' = Raised(t.err)
    /\ op' = Call("__iter__", NoId)
    /\ UNCHANGED <<datapipe_adapter_fns, reading_service, reading_service_state,
                   _terminated, _datapipe_before_reading_service_adapt, _seed,
                   opener, lister>>

__iter__ == IterCall(Failures)

-----------------------------------------------------------------------------
(* DataLoader2.seed *)
SeedInputs == {5, _UINT64_UPPER_BOUND}

\* Every kind of argument: negative, zero, in range, the bound, above it.
SeedDomain == {-1, 0, 5, _UINT64_UPPER_BOUND, _UINT64_UPPER_BOUND + 1}

\* `if seed >= _UINT64_UPPER_BOUND:`
SeedRejectedAbove(s) == s > _UINT64_UPPER_BOUND
SeedRejected(s) == s >= _UINT64_UPPER_BOUND

\* One call of seed() with an argument of `inputs`.
SeedCall(inputs) ==
    \E s \in inputs :
        /\ IF SeedRejected(s)
           THEN /\ ret' = Raised(BAD_SEED)
                /\ UNCHANGED <<_seed, _reset_seed>>
           ELSE /\ _seed' = Some(s)
                /\ _reset_seed' = TRUE
                /\ ret' = Returned("none", -1)
        /\ op' = Call("seed", s)
        /\ Record(<<>>)
        /\ UNCHANGED <<datapipe, datapipe_adapter_fns, reading_service,
                       reading_service_state, _adapted, _datapipe_iter,
                       _reset_iter, _terminated, valid_iterator_id,
                       _datapipe_before_reading_service_adapt, _seed_generator,
                       issued, opener, lister>>

seed == SeedCall(SeedInputs)

-----------------------------------------------------------------------------
(* DataLoader2.state_dict *)
\* `self.reading_service is not None and isinstance(self.reading_service,
\*  CheckpointableReadingServiceInterface)`
CheckpointableAny == reading_service # "none"
Checkpointable == reading_service = "ckpt"

\* `serialize_datapipe(self._datapipe_before_reading_service_adapt)`
SerializedGraphAdapted == datapipe
SerializedGraph == _datapipe_before_reading_service_adapt

state_dict ==
    LET ckpt == Checkpointable
    IN  /\ Record(IF ckpt THEN <<Hook("checkpoint", <<>>)>> ELSE <<>>)
        /\ op' = Call("state_dict", NoId)
        /\ ret' = Returned("bundle",
                           Bundle(SerializedGraph,
                                  IF ckpt THEN Some(RS_checkpoint) ELSE None))
        /\ UNCHANGED <<self, issued, opener, lister>>

-----------------------------------------------------------------------------
(* DataLoader2.load_state_dict, given a dictionary made elsewhere or the   *)
(* one state_dict() has just returned.                                     *)
\* `if self._datapipe_iter is not None:`
HasIteratorInProgress == ~IsNone(_datapipe_iter) /\ ~_reset_iter
HasIterator == ~IsNone(_datapipe_iter)

BundleInputs == ForeignBundles \cup (IF ret.kind = "bundle" THEN {ret.val} ELSE {})

load_state_dict ==
    \E b \in BundleInputs :
        LET des == deserialize_datapipe(b.serialized_datapipe)
            new == Some(ApplyAdapters(datapipe_adapter_fns, Get(des)))
        IN  /\ op' = CallWith("load_state_dict", b)
            /\ Record(<<>>)
            /\ IF HasIterator
               THEN /\ ret' = Raised(ALREADY_CREATED)
                    /\ UNCHANGED <<datapipe, reading_service_state,
                                   _datapipe_before_reading_service_adapt>>
               ELSE IF IsNone(des)
               THEN /\ ret' = Raised("AssertionError")
                    /\ UNCHANGED <<datapipe, reading_service_state,
                                   _datapipe_before_reading_service_adapt>>
               ELSE /\ Len(Get(new).ad) <= MaxAdapt
                    /\ datapipe' = new
                    /\ reading_service_state' = b.reading_service_state
                    /\ _datapipe_before_reading_service_adapt' = clone(new)
                    /\ ret' = Returned("none", -1)
            /\ UNCHANGED <<datapipe_adapter_fns, reading_service, _adapted,
                           _datapipe_iter, _reset_iter, _terminated,
                           valid_iterator_id, _seed_generator, _seed, _reset_seed,
                           issued, opener, lister>>

-----------------------------------------------------------------------------
(* Boto3FileOpenerIterDataPipe of torchdata/datapipes/iter/load/boto3.py.  *)
(* A URI is the sequence of its characters.  The S3 service is a table     *)
(* from (bucket, key) to the bytes of the object.                          *)
Scheme == <<"s", "3", ":", "/", "/">>
UriK == Scheme \o <<"b", "/", "k">>              \* object k of bucket b
UriDK == Scheme \o <<"b", "/", "d", "/", "k">>    \* object d/k of bucket b
UriNoKey == Scheme \o <<"b">>                    \* a bucket, no key
UriNoObject == Scheme \o <<"b", "/", "x">>       \* no such object
Uris == {UriK, UriDK, UriNoKey, UriNoObject}

S3Objects == (<< <<"b">>, <<"k">> >> :> "bytes of k")
             @@ (<< <<"b">>, <<"d", "/", "k">> >> :> "bytes of d/k")

Sources == SeqsUpTo(Uris, MaxSrc)

\* `file_uri[5:]`
DropFirst(str, n) == SubSeq(str, n + 1, Len(str))

\* `.split('/', 1)`
Split1(str) ==
    LET at == {i \in 1..Len(str) : str[i] = "/"}
    IN  IF at = {} THEN <<str>>
        ELSE LET i == CHOOSE j \in at : \A k \in at : j <= k
             IN  <<SubSeq(str, 1, i - 1), SubSeq(str, i + 1, Len(str))>>

\* `file_uri[5:].split('/', 1)`
BucketAndKeyOfWholeUri(file_uri) == Split1(file_uri)
BucketAndKey(file_uri) == Split1(DropFirst(file_uri, 5))

\* One pass of the loop body for one URI: the pair yielded or the error raised.
OpenOne(file_uri) ==
    LET parts == BucketAndKey(file_uri)
    IN  IF Len(parts) # 2 THEN Raised("ValueError")
        ELSE IF <<parts[1], parts[2]>> \notin DOMAIN S3Objects
        THEN Raised("ClientError")
        ELSE Returned("pair", <<file_uri, S3Objects[<<parts[1], parts[2]>>]>>)

\* Boto3FileOpener(source): the constructor stores the source.
InitOpener ==
    /\ Constructed(None, <<>>, "none", None)
    /\ ListerUnused
    /\ source_datapipe \in Sources
    /\ opener_iter = None
    /\ yielded = <<>>

\* iter(opener): a new generator, nothing run yet.
Opener__iter__ ==
    /\ opener_iter' = Some([pos |-> 0, done |-> FALSE, after |-> Len(yielded)])
    /\ yielded' = <<>>
    /\ op' = Call("Opener.__iter__", NoId)
    /\ ret' = Returned("generator", -1)
    /\ UNCHANGED <<self, issued, invoked, iter_open, called, source_datapipe, lister>>

\* next(generator): runs the loop up to the next yield, the end or an error.
Opener__next__ ==
    /\ ~IsNone(opener_iter)
    /\ LET it == Get(opener_iter)
       IN  IF it.done \/ it.pos >= Len(source_datapipe)
           THEN /\ ret' = StopIteration
                /\ opener_iter' = Some([it EXCEPT !.done = TRUE])
                /\ UNCHANGED yielded
           ELSE LET r == OpenOne(source_datapipe[it.pos + 1])
                IN  /\ ret' = r
                    /\ IF r.kind = "pair"
                       THEN /\ yielded' = Append(yielded, r.val)
                            /\ opener_iter' = Some([it EXCEPT !.pos = @ + 1])
                       ELSE /\ UNCHANGED yielded
                            /\ opener_iter' = Some([it EXCEPT !.done = TRUE])
    /\ op' = Call("Opener.__next__", NoId)
    /\ UNCHANGED <<self, issued, invoked, iter_open, called, source_datapipe, lister>>

\* len(opener)
Opener__len__ ==
    /\ op' = Call("Opener.__len__", NoId)
    /\ ret' = Returned("len", Len(source_datapipe))
    /\ UNCHANGED <<self, issued, invoked, iter_open, called, opener, lister>>

NextOpener ==
    \/ Opener__iter__
    \/ Opener__next__
    \/ Opener__len__

SpecOpener == InitOpener /\ [][NextOpener]_vars

-----------------------------------------------------------------------------
(* Boto3FileLister (datapipes/iter/load/boto3.py).  A root is a sequence   *)
(* of characters; the store is S3Objects.                                  *)
RootBare == <<"b">>                            \* a bucket name alone
RootBucket == Scheme \o <<"b", "/">>            \* s3://b/, the whole bucket
RootPrefix == Scheme \o <<"b", "/", "d", "/">>  \* s3://b/d/
RootNoScheme == <<"b", "/", "d", "/">>          \* b/d/
Roots == {RootBare, RootBucket, RootPrefix, RootNoScheme}

\* The masks argument: "" or "*/k", held as the suffix a name must end with.
MaskNone == <<>>
MaskSlashK == <<"/", "k">>
MaskInputs == {MaskNone, MaskSlashK}

\* The root argument: one string, or a sequence of strings.
RootInputs ==
    {<<"str", r>> : r \in Roots} \cup {<<"seq", rs>> : rs \in SeqsUpTo(Roots, MaxRoots)}

\* `if isinstance(root, str): root = [root]`
WrapRoot(root) == IF root[1] = "str" THEN <<root[2]>> ELSE root[2]

\* `root.replace('s3://', '')`: every occurrence goes, left to right.
RECURSIVE RemoveScheme(_)
RemoveScheme(str) ==
    IF Len(str) < Len(Scheme) THEN str
    ELSE IF SubSeq(str, 1, Len(Scheme)) = Scheme
         THEN RemoveScheme(DropFirst(str, Len(Scheme)))
         ELSE <<Head(str)>> \o RemoveScheme(Tail(str))

\* str.startswith / str.endswith
StartsWith(str, pre) == Len(pre) <= Len(str) /\ SubSeq(str, 1, Len(pre)) = pre
EndsWith(str, suf) ==
    Len(suf) <= Len(str) /\ SubSeq(str, Len(str) - Len(suf) + 1, Len(str)) = suf

\* The keys of a bucket in the order S3 lists them (by key, ascending).
KeysOf(bucket) ==
    IF bucket = <<"b">> THEN << <<"d", "/", "k">>, <<"k">> >> ELSE <<>>

\* `s3.list_objects_v2(Bucket=bucket, Prefix=prefix).get('Contents', [])`
list_objects_v2(bucket, prefix) ==
    LET HasPrefix(key) == StartsWith(key, prefix)
    IN  SelectSeq(KeysOf(bucket), HasPrefix)

\* `match_masks(file_name, self.masks)`: no mask matches every name.
match_masks(file_name, mask) == mask = <<>> \/ EndsWith(file_name, mask)

\* f"s3://{bucket}/{file_name}"
UrlOf(bucket, file_name) == Scheme \o bucket \o <<"/">> \o file_name

\* The generator body from root r (roots finished) and content k (contents of
\* the current root passed) up to its next yield, its end or an error.
RECURSIVE ListFrom(_, _, _, _)
ListFrom(roots, mask, r, k) ==
    IF r >= Len(roots) THEN [ret |-> StopIteration, root |-> r, key |-> k]
    ELSE LET parts == Split1(RemoveScheme(roots[r + 1]))
         IN  IF Len(parts) # 2
             THEN [ret |-> Raised("ValueError"), root |-> r, key |-> k]
             ELSE LET contents == list_objects_v2(parts[1], parts[2])
                  IN  IF k >= Len(contents) THEN ListFrom(roots, mask, r + 1, 0)
                      ELSE IF ~match_masks(contents[k + 1], mask)
                      THEN ListFrom(roots, mask, r, k + 1)
                      ELSE [ret |-> Returned("url", UrlOf(parts[1], contents[k + 1])),
                            root |-> r, key |-> k + 1]

\* Boto3FileLister(root, masks)
InitLister ==
    /\ Constructed(None, <<>>, "none", None)
    /\ OpenerUnused
    /\ \E root \in RootInputs : lister_datapipe = WrapRoot(root)
    /\ masks \in MaskInputs
    /\ lister_iter = None
    /\ listed = <<>>

\* iter(lister): a new generator, nothing run yet.
Lister__iter__ ==
    /\ lister_iter' = Some([root |-> 0, key |-> 0, done |-> FALSE])
    /\ listed' = <<>>
    /\ op' = Call("Lister.__iter__", NoId)
    /\ ret' = Returned("generator", -1)
    /\ UNCHANGED <<self, issued, invoked, iter_open, called, opener,
                   lister_datapipe, masks>>

\* next(generator)
Lister__next__ ==
    /\ ~IsNone(lister_iter)
    /\ LET it == Get(lister_iter)
       IN  IF it.done
           THEN /\ ret' = StopIteration
                /\ UNCHANGED <<lister_iter, listed>>
           ELSE LET r == ListFrom(lister_datapipe, masks, it.root, it.key)
                IN  /\ ret' = r.ret
                    /\ IF r.ret.kind = "url"
                       THEN /\ listed' = Append(listed, r.ret.val)
                            /\ lister_iter' = Some([it EXCEPT !.root = r.root,
                                                              !.key = r.key])
                       ELSE /\ UNCHANGED listed
                            /\ lister_iter' = Some([it EXCEPT !.done = TRUE])
    /\ op' = Call("Lister.__next__", NoId)
    /\ UNCHANGED <<self, issued, invoked, iter_open, called, opener,
                   lister_datapipe, masks>>

NextLister ==
    \/ Lister__iter__
    \/ Lister__next__

SpecLister == InitLister /\ [][NextLister]_vars

-----------------------------------------------------------------------------
(* The iteration life cycle: start-session, pulls through any issued       *)
(* proxy, shutdown.                                                        *)
Next ==
    \/ __iter__
    \/ __next__
    \/ shutdown

Spec == Init /\ [][Next]_vars

(* The life cycle when no hook and no iterator creation raises.           *)
NextNoFault ==
    \/ IterCall({"none"})
    \/ __next__
    \/ shutdown

SpecNoFault == Init /\ [][NextNoFault]_vars

(* The life cycle with checkpoint and restore calls in between; the only   *)
(* hook that raises is initialize_iteration.                               *)
NextRestore ==
    \/ IterCall({"none", "init_iter"})
    \/ __next__
    \/ shutdown
    \/ state_dict
    \/ load_state_dict

SpecRestore == Init /\ [][NextRestore]_vars

(* The life cycle with set-seed calls of every kind in between, when no    *)
(* hook and no iterator creation raises.                                   *)
NextSeed ==
    \/ SeedCall(SeedDomain)
    \/ IterCall({"none"})
    \/ __next__
    \/ shutdown

SpecSeed == Init /\ [][NextSeed]_vars

(* The life cycle with set-seed and checkpoint calls in between.           *)
NextCalls ==
    \/ __iter__
    \/ __next__
    \/ shutdown
    \/ seed
    \/ state_dict

SpecCalls == Init /\ [][NextCalls]_vars

-----------------------------------------------------------------------------
(* Properties.  A step is identified by the call it records: op' names the *)
(* call, ret' its result and called' the hooks it invoked.                 *)
Calls(c, h) == CountIn(c, h) > 0
AdaptCalls(c) == CountIn(c, "initialize") + CountIn(c, "restore")
HasBackend == reading_service # "none"
ValidPull == op'.name = "__next__" /\ op'.id = valid_iterator_id
StalePull == op'.name = "__next__" /\ op'.id # valid_iterator_id
AllElements(g) == Signals(g.items) = {}

(* C1: every successful start-session returns a proxy with a fresh id that *)
(* is greater than the previous valid id and becomes the valid id; a pull  *)
(* through any other issued proxy raises the stale-iterator error, and an  *)
(* element is only ever returned through the proxy with the valid id.      *)
C1_SingleValidProxy ==
    [][ /\ (op'.name = "__iter__" /\ ret'.kind = "proxy") =>
              /\ ret'.val = valid_iterator_id'
              /\ valid_iterator_id' > valid_iterator_id
              /\ ret'.val \notin issued
              /\ issued' = issued \cup {ret'.val}
        /\ valid_iterator_id' >= valid_iterator_id
        /\ StalePull => ret' = Raised(STALE)
        /\ (op'.name = "__next__" /\ ret'.kind = "elem") => op'.id = valid_iterator_id
      ]_vars

\* A pull through a superseded proxy has just raised the stale-iterator error.
C1_Witness ==
    /\ op.name = "__next__"
    /\ op.id < valid_iterator_id
    /\ ret = Raised(STALE)

(* C2: once terminated is true it stays true, every start-session raises,  *)
(* and no pull through any proxy returns an element.                       *)
C2_NoIterationAfterShutdown ==
    [][ _terminated =>
            /\ _terminated'
            /\ (op'.name = "__iter__" => ret'.kind = "error")
            /\ (op'.name = "__next__" => ret'.kind # "elem")
      ]_vars

(* C3: initialize_iteration is never invoked while the iteration opened by *)
(* the previous initialize_iteration has not been closed by                *)
(* finalize_iteration.                                                     *)
C3_OneOpenIteration ==
    [][ Calls(called', "initialize_iteration") => ~iter_open ]_vars

(* C4 as stated: with a backend, initialize and restore are invoked at     *)
(* most once in total, and have been invoked when a pull returns an        *)
(* element.                                                                *)
C4_AdaptInvokedAtMostOnce ==
    HasBackend =>
        /\ invoked["initialize"] + invoked["restore"] <= 1
        /\ (op.name = "__next__" /\ ret.kind = "elem") =>
               invoked["initialize"] + invoked["restore"] >= 1

(* C4 amended: with a backend, initialize or restore returns successfully  *)
(* at most once: it is invoked only while _adapted is false, at most once  *)
(* per call, _adapted becomes true exactly when it returns and never       *)
(* becomes false again; and _adapted is true whenever a pull returns an    *)
(* element.                                                                *)
C4_AdaptSucceedsAtMostOnce ==
    [][ HasBackend =>
            /\ AdaptCalls(called') > 0 =>
                  /\ ~_adapted
                  /\ AdaptCalls(called') = 1
                  /\ op'.name = "__iter__"
            /\ _adapted => _adapted'
            /\ (_adapted' /\ ~_adapted) <=>
                  (\E i \in 1..Len(called') :
                        /\ called'[i].hook \in {"initialize", "restore"}
                        /\ ~called'[i].raised)
            /\ (op'.name = "__next__" /\ ret'.kind = "elem") => _adapted
      ]_vars

\* An element has been pulled after an adaptation hook was invoked twice:
\* the first invocation raised, the second returned.
C4_Witness ==
    /\ HasBackend
    /\ op.name = "__next__" /\ ret.kind = "elem"
    /\ _adapted
    /\ invoked["initialize"] + invoked["restore"] = 2

(* C5: when a pull through the valid proxy raises anything but             *)
(* StopIteration, the error raised by the underlying iterator is what the  *)
(* caller gets, terminated is true, finalize_iteration and then finalize   *)
(* have been invoked (by this call, unless the orchestrator was shut down  *)
(* before), and every start-session after it raises.                       *)
C5_FailedPullShutsDown ==
    [][ /\ (ValidPull /\ ret'.kind = "error") =>
              /\ ret' = Advance(_datapipe_iter).out
              /\ _terminated'
              /\ HasBackend =>
                    /\ invoked'["finalize_iteration"] >= 1
                    /\ invoked'["finalize"] = 1
                    /\ ~_terminated =>
                          called' = <<Hook("finalize_iteration", <<>>),
                                      Hook("finalize", <<>>)>>
        /\ (_terminated /\ op'.name = "__iter__") =>
              /\ ret'.kind = "error"
              /\ UNCHANGED <<valid_iterator_id, issued, _terminated>>
      ]_vars

\* The graph has just raised during a pull and the call shut the backend down.
C5_Witness ==
    /\ op.name = "__next__" /\ op.id = valid_iterator_id
    /\ ret = Raised("GraphError")
    /\ _terminated
    /\ Calls(called, "finalize")

(* C6 as stated: an error raised inside start-session by a backend hook or *)
(* by the creation of the graph's iterator leaves the orchestrator         *)
(* terminated, with the backend's finalize invoked.                        *)
C6_IterErrorShutsDown ==
    [][ (op'.name = "__iter__" /\ ret'.err \in {"HookError", "GraphError"}) =>
            /\ _terminated'
            /\ HasBackend => invoked'["finalize"] >= 1
      ]_vars

(* C6 amended: such an error reaches the caller without any shutdown:      *)
(* terminated is unchanged, neither finalize_iteration nor finalize is     *)
(* invoked, no proxy is issued, the valid id is unchanged and              *)
(* _reset_iter stays true, so no session has started.                      *)
C6_IterErrorPropagates ==
    [][ (op'.name = "__iter__" /\ ret'.err \in {"HookError", "GraphError"}) =>
            /\ ~_terminated /\ ~_terminated'
            /\ ~Calls(called', "finalize")
            /\ ~Calls(called', "finalize_iteration")
            /\ UNCHANGED <<valid_iterator_id, issued, _datapipe_iter>>
            /\ _reset_iter /\ _reset_iter'
      ]_vars

\* iter(self.datapipe) has just raised after initialize_iteration returned.
C6_Witness ==
    /\ op.name = "__iter__"
    /\ ret = Raised("GraphError")
    /\ Calls(called, "initialize_iteration")
    /\ ~_terminated
    /\ iter_open

(* C7: a shutdown() call on a terminated orchestrator changes none of its  *)
(* fields, invokes no hook and returns normally.                           *)
C7_ShutdownIdempotent ==
    [][ (op'.name = "shutdown" /\ _terminated) =>
            /\ UNCHANGED <<self, issued, invoked, iter_open>>
            /\ called' = <<>>
            /\ ret' = Returned("none", -1)
      ]_vars

\* A shutdown() call that found the orchestrator with a backend already
\* terminated has just returned.
C7_Witness ==
    /\ op.name = "shutdown"
    /\ HasBackend
    /\ _terminated
    /\ called = <<>>
    /\ invoked["finalize"] = 1

(* C8: with a backend, finalize has been invoked exactly once when         *)
(* terminated is true and never when it is false; it is invoked only by a  *)
(* call that finds the orchestrator not terminated, and that call is a     *)
(* shutdown() or a pull that raised.                                       *)
C8_FinalizeExactlyOnce ==
    [][ HasBackend =>
            /\ invoked'["finalize"] = (IF _terminated' THEN 1 ELSE 0)
            /\ Calls(called', "finalize") =>
                  /\ ~_terminated
                  /\ CountIn(called', "finalize") = 1
                  /\ \/ op'.name = "shutdown"
                     \/ op'.name = "__next__" /\ ret'.kind = "error"
      ]_vars

\* A call made after the shutdown has returned, finalize still invoked once.
C8_Witness ==
    /\ HasBackend
    /\ _terminated
    /\ invoked["finalize"] = 1
    /\ op.name \in {"__iter__", "__next__", "state_dict", "seed", "shutdown"}
    /\ ~Calls(called, "finalize")

(* C9: once finalize has been invoked, no call invokes any hook of the     *)
(* backend.                                                                *)
C9_NoHookAfterFinalize ==
    [][ invoked["finalize"] >= 1 => called' = <<>> ]_vars

(* C10: for a graph of n elements and a session in progress on an          *)
(* orchestrator not shut down, a pull through the valid proxy returns the  *)
(* next element and invokes no hook while fewer than n were pulled; with n *)
(* pulled it raises StopIteration, sets _reset_iter, leaves terminated     *)
(* false and invokes finalize_iteration (with a backend) and nothing else. *)
(* When that pull is the (n+1)-th call after the first start-session,      *)
(* finalize_iteration has then been invoked exactly once.                  *)
C10_ExhaustionAfterN ==
    [][ (/\ ValidPull
         /\ ~_terminated
         /\ ~IsNone(_datapipe_iter)
         /\ AllElements(Get(_datapipe_iter).g)) =>
            LET n == Len(Get(_datapipe_iter).g.items)
                pos == Get(_datapipe_iter).pos
            IN  IF pos < n
                THEN /\ ret' = Returned("elem", pos + 1)
                     /\ called' = <<>>
                     /\ ~_terminated'
                ELSE /\ ret' = StopIteration
                     /\ _reset_iter'
                     /\ ~_terminated'
                     /\ called' = IF HasBackend
                                  THEN <<Hook("finalize_iteration", <<>>)>>
                                  ELSE <<>>
                     /\ (/\ HasBackend
                         /\ valid_iterator_id = 0
                         /\ \/ op.name = "__iter__" /\ ret.kind = "proxy"
                            \/ op.name = "__next__" /\ ret.kind = "elem") =>
                            invoked'["finalize_iteration"] = 1
      ]_vars

\* The (MaxLen+1)-th pull of the first session over MaxLen elements has just
\* raised StopIteration, with a backend.
C10_Witness ==
    /\ HasBackend
    /\ op.name = "__next__" /\ op.id = 0 /\ valid_iterator_id = 0
    /\ ret = StopIteration
    /\ ~_terminated /\ _reset_iter
    /\ ~IsNone(_datapipe_iter)
    /\ AllElements(Get(_datapipe_iter).g)
    /\ Len(Get(_datapipe_iter).g.items) = MaxLen
    /\ Get(_datapipe_iter).pos = MaxLen
    /\ invoked["finalize_iteration"] = 1

(* C11: a pull through the valid proxy of an orchestrator not shut down,   *)
(* during which the graph raises the pause signal, raises StopIteration,   *)
(* leaves terminated false, sets _reset_iter and invokes no finalize; as   *)
(* long as no shutdown follows, the next start-session is not refused: it  *)
(* takes the reset branch, draws a new iterator and returns a proxy with   *)
(* the valid id.                                                           *)
PausedAt(it) ==
    /\ ~IsNone(it)
    /\ Get(it).pos >= 1
    /\ Get(it).g.items[Get(it).pos] = "PAUSE"

C11_PauseEndsSession ==
    [][ /\ (/\ ValidPull
            /\ ~_terminated
            /\ Advance(_datapipe_iter).out.err = "PauseIteration") =>
              /\ ret' = StopIteration
              /\ ~_terminated'
              /\ _reset_iter'
              /\ ~Calls(called', "finalize")
              /\ invoked'["finalize"] = 0
        /\ (/\ op.name = "__next__" /\ op.id = valid_iterator_id
            /\ PausedAt(_datapipe_iter)
            /\ ~_terminated
            /\ op'.name = "__iter__") =>
              /\ ret' = Returned("proxy", valid_iterator_id')
              /\ valid_iterator_id' = valid_iterator_id + 1
              /\ _datapipe_iter' = Some([g |-> Get(datapipe'), pos |-> 0])
              /\ ~_reset_iter'
      ]_vars

\* A session with a backend has just been ended by a pause, after one element.
C11_Witness ==
    /\ HasBackend
    /\ op.name = "__next__" /\ op.id = valid_iterator_id
    /\ ret = StopIteration
    /\ PausedAt(_datapipe_iter)
    /\ Get(_datapipe_iter).pos = 2
    /\ ~_terminated /\ _reset_iter
    /\ invoked["finalize"] = 0

(* C12: load_state_dict raises the iterator-already-created error whenever *)
(* the orchestrator holds an iterator, and then leaves the graph, the      *)
(* snapshot and the pending backend state unchanged; an orchestrator that  *)
(* has issued a proxy and is not shut down holds one, whether the session  *)
(* is in progress or exhausted.                                            *)
Restored == <<datapipe, _datapipe_before_reading_service_adapt, reading_service_state>>

C12_LoadRejectedWithIterator ==
    [][ /\ (op'.name = "load_state_dict" /\ ~IsNone(_datapipe_iter)) =>
              /\ ret' = Raised(ALREADY_CREATED)
              /\ UNCHANGED Restored
        /\ (issued' # {} /\ ~_terminated') => ~IsNone(_datapipe_iter')
      ]_vars

\* load_state_dict has just been refused after the session was exhausted.
C12_Witness ==
    /\ op.name = "load_state_dict"
    /\ ret = Raised(ALREADY_CREATED)
    /\ ~_terminated /\ _reset_iter
    /\ Get(_datapipe_iter).pos = Len(Get(_datapipe_iter).g.items)
    /\ AllElements(Get(_datapipe_iter).g)
    /\ invoked["finalize_iteration"] >= 1

(* C13: on a terminated orchestrator load_state_dict raises and leaves the *)
(* graph, the snapshot and the pending backend state unchanged.            *)
C13_LoadRejectedAfterShutdown ==
    [][ (op'.name = "load_state_dict" /\ _terminated) =>
            /\ ret'.kind = "error"
            /\ UNCHANGED Restored
      ]_vars

(* C15: the start-session that follows the construction or a successful    *)
(* load_state_dict of an orchestrator with a backend, not shut down,       *)
(* adapts the graph first: with a pending backend state it invokes restore *)
(* with exactly that state and not initialize, or, when the backend is not *)
(* checkpointable, raises the incompatible-backend error without invoking  *)
(* a hook, changing the graph, issuing a proxy or changing the valid id;   *)
(* without a pending state it invokes initialize and not restore.          *)
C15_RestoreHookWithPendingState ==
    [][ (/\ \/ op.name = "__init__"
            \/ op.name = "load_state_dict" /\ ret.kind = "none"
         /\ op'.name = "__iter__"
         /\ HasBackend /\ ~_terminated /\ ~IsNone(datapipe)) =>
            IF IsNone(reading_service_state)
            THEN /\ called' # <<>>
                 /\ called'[1].hook = "initialize"
                 /\ ~Calls(called', "restore")
            ELSE IF reading_service = "ckpt"
            THEN /\ called' # <<>>
                 /\ called'[1].hook = "restore"
                 /\ called'[1].arg = reading_service_state
                 /\ ~Calls(called', "initialize")
            ELSE /\ ret' = Raised(NOT_CHECKPOINTABLE)
                 /\ called' = <<>>
                 /\ UNCHANGED <<datapipe, _adapted, issued, valid_iterator_id>>
      ]_vars

(* C16: when the bundle state_dict() has just returned is loaded into an   *)
(* orchestrator that is as its constructor left it (adapters applied once, *)
(* nothing started), the graph and the snapshot after the load equal the   *)
(* snapshot the bundle was made from, every adapter applied exactly once.  *)
C16_RoundTripKeepsSnapshot ==
    [][ (/\ op.name = "state_dict" /\ ret.kind = "bundle"
         /\ issued = {} /\ ~_terminated /\ ~_adapted
         /\ ~IsNone(datapipe)
         /\ datapipe = _datapipe_before_reading_service_adapt
         /\ Get(datapipe).ad = datapipe_adapter_fns
         /\ op'.name = "load_state_dict" /\ op'.arg = ret.val
         /\ ret'.kind = "none") =>
            /\ datapipe' = _datapipe_before_reading_service_adapt
            /\ _datapipe_before_reading_service_adapt' =
                   _datapipe_before_reading_service_adapt
            /\ Get(datapipe').ad = datapipe_adapter_fns
      ]_vars

InSeedRange(s) == 0 <= s /\ s < _UINT64_UPPER_BOUND

C17_SeedReachesBackend ==
    [][ (/\ op'.name = "__iter__"
         /\ ~IsNone(_seed) /\ InSeedRange(Get(_seed))) =>
            \A i \in 1..Len(called') :
                called'[i].hook = "initialize_iteration" =>
                    called'[i].arg = Some(Get(_seed))
      ]_vars

(* C18: seed(s) with s >= 2^64 raises ValueError and leaves _seed,         *)
(* _reset_seed and the seed generator as they were.                        *)
C18_SeedAtBoundRejected ==
    [][ (op'.name = "seed" /\ op'.id >= _UINT64_UPPER_BOUND) =>
            /\ ret' = Raised(BAD_SEED)
            /\ UNCHANGED <<_seed, _reset_seed, _seed_generator>>
      ]_vars

\* seed() has just refused the bound itself; the seed set and consumed before
\* is still there.
C18_Witness ==
    /\ op = Call("seed", _UINT64_UPPER_BOUND)
    /\ ret = Raised(BAD_SEED)
    /\ _seed = Some(5)
    /\ ~_reset_seed
    /\ _seed_generator = Some(5)

(* C19: seed(s) raises ValueError for every s outside 0 .. 2^64 - 1,       *)
(* negative s included, and the pending seed is always inside that range.  *)
C19_SeedOutsideRangeRejected ==
    [][ /\ (op'.name = "seed" /\ ~InSeedRange(op'.id)) =>
              /\ ret' = Raised(BAD_SEED)
              /\ UNCHANGED <<_seed, _reset_seed>>
        /\ ~IsNone(_seed') => InSeedRange(Get(_seed'))
      ]_vars

(* C20: the pairs a generator of the file opener has yielded are, in       *)
(* order, the first paths of the source, each with the bytes of the object *)
(* it names; over a source whose paths all name existing objects the       *)
(* generator ends after exactly one pair per path; len() of the opener is  *)
(* the length of the source; and a new iteration, whatever the previous    *)
(* one had yielded, yields from the first path again.                      *)
ContentOf(uri) ==
    CASE uri = UriK -> "bytes of k"
      [] uri = UriDK -> "bytes of d/k"

Openable(src) == \A i \in 1..Len(src) : src[i] \in {UriK, UriDK}

C22_ResetOnlyAtSessionEnd ==
    [][ /\ (ValidPull /\ ret'.kind = "elem" /\ ~_reset_iter) => ~_reset_iter'
        /\ (/\ op.name = "__next__" /\ op.id = valid_iterator_id
            /\ ret.kind = "elem"
            /\ ~_terminated
            /\ op'.name = "__iter__") =>
              /\ ret' = Returned("proxy", valid_iterator_id + 1)
              /\ called' = <<>>
              /\ UNCHANGED <<_datapipe_iter, _seed_generator, _reset_seed, datapipe>>
      ]_vars

(* C23 as stated: a pull through a superseded proxy made while the session *)
(* of the valid proxy is in progress invokes no finalize_iteration and     *)
(* leaves the underlying iterator as it is.                                *)
InProgress ==
    /\ ~_terminated
    /\ ~IsNone(_datapipe_iter)
    /\ Get(_datapipe_iter).pos < Len(Get(_datapipe_iter).g.items)

C23_StalePullInvokesNoHook ==
    [][ (StalePull /\ InProgress) =>
            /\ ~Calls(called', "finalize_iteration")
            /\ UNCHANGED _datapipe_iter
      ]_vars

(* C23 amended: a pull through a superseded proxy raises the stale-iterator *)
(* error, invokes finalize_iteration once when a backend is attached (also *)
(* while the session of the valid proxy is in progress) and no other hook, *)
(* and changes no field of the orchestrator: the underlying iterator and   *)
(* its position, and so the element the valid proxy returns next, are as   *)
(* before.                                                                 *)
C23_StalePullOnlyFinalizesIteration ==
    [][ StalePull =>
            /\ ret' = Raised(STALE)
            /\ called' = IF HasBackend THEN <<Hook("finalize_iteration", <<>>)>>
                         ELSE <<>>
            /\ UNCHANGED <<self, issued>>
            /\ Advance(_datapipe_iter') = Advance(_datapipe_iter)
      ]_vars

\* A superseded proxy has just been pulled, with a backend, while the valid
\* proxy's session had returned one element of two.
C23_Witness ==
    /\ HasBackend
    /\ op.name = "__next__" /\ op.id < valid_iterator_id
    /\ ret = Raised(STALE)
    /\ called = <<Hook("finalize_iteration", <<>>)>>
    /\ InProgress
    /\ Get(_datapipe_iter).pos = 1
    /\ Advance(_datapipe_iter).out = Returned("elem", 2)

(* C24: start-session, next(), set-seed, shutdown and checkpoint leave the *)
(* snapshot unchanged, and the graph in the bundle state_dict() returns is *)
(* that snapshot: it carries no marking of the backend.                    *)
C24_SnapshotUntouchedByIteration ==
    [][ /\ op'.name \in {"__iter__", "__next__", "seed", "shutdown", "state_dict"} =>
              UNCHANGED _datapipe_before_reading_service_adapt
        /\ op'.name = "state_dict" =>
              LET g == deserialize_datapipe(ret'.val.serialized_datapipe)
              IN  /\ g = _datapipe_before_reading_service_adapt
                  /\ ~IsNone(g) => Get(g).be = <<>>
      ]_vars

\* state_dict() has just returned after the session over the backend-adapted
\* graph was exhausted; the bundle holds the graph as it was before.
C24_Witness ==
    /\ op.name = "state_dict"
    /\ _adapted
    /\ Get(datapipe).be # <<>>
    /\ ~IsNone(_datapipe_iter)
    /\ Get(_datapipe_iter).pos = Len(Get(_datapipe_iter).g.items)
    /\ Get(_datapipe_iter).pos >= 1
    /\ invoked["finalize_iteration"] >= 1
    /\ ret.val.serialized_datapipe # serialize_datapipe(datapipe)
    /\ Get(deserialize_datapipe(ret.val.serialized_datapipe)).be = <<>>


-----------------------------------------------------------------------------
\* The keys the documentation places under a root: a bucket name alone and a
\* bucket with an empty prefix stand for the whole bucket.
KeysUnder(root) ==
    IF root \in {RootBare, RootBucket} THEN << <<"d", "/", "k">>, <<"k">> >>
    ELSE << <<"d", "/", "k">> >>

\* The URLs of the files under a root whose name matches the mask.
ListingOf(root, mask) ==
    LET Matches(key) == match_masks(key, mask)
        keys == SelectSeq(KeysUnder(root), Matches)
    IN  [i \in 1..Len(keys) |-> UrlOf(<<"b">>, keys[i])]

\* The listings of the roots, one after the other in root order.
RECURSIVE ListingOfAll(_, _)
ListingOfAll(roots, mask) ==
    IF roots = <<>> THEN <<>>
    ELSE ListingOf(Head(roots), mask) \o ListingOfAll(Tail(roots), mask)

IsPrefixOf(a, b) == Len(a) <= Len(b) /\ SubSeq(b, 1, Len(a)) = a

\* C21: for every root that is a bucket name alone or a bucket with a prefix,
\* the lister's generator raises nothing, what it has yielded is at every
\* moment the beginning of the roots' listings taken in root order (each file
\* under a root whose name matches the masks, once, and nothing else), and
\* when it ends it has yielded all of them.
C21_ListerYieldsEveryFileOfEveryRoot ==
    ~IsNone(lister_iter) =>
        /\ (op.name = "Lister.__next__" => ret.kind \in {"url", "stop"})
        /\ IsPrefixOf(listed, ListingOfAll(lister_datapipe, masks))
        /\ (Get(lister_iter).done => listed = ListingOfAll(lister_datapipe, masks))

====
